---- MODULE Spec2Model ----
(***************************************************************************)
(* Model of cajero.py, the "Cajero Pulgarcito" account ledger.             *)
(*                                                                         *)
(* The program is single-threaded: every menu option runs one handler to   *)
(* completion.  Each handler is one action.  A handler is written first as *)
(* an operator over a "world" record w = [data, fs, inp, out, reloj] (the  *)
(* in-memory store, the file system, the lines read and printed so far and *)
(* the time read by ahora()), so that a handler's calls to                 *)
(* registrar_operacion and guardar_datos are part of its effect.           *)
(*                                                                         *)
(* Python values whose type varies from call to call (the "tipo" and       *)
(* "monto" of an operation) are tagged: PyInt(n) is the int n, PyStr(s)    *)
(* the str s.  A line typed at a prompt is a sequence of one-character     *)
(* strings, so that strip() and int() are computed character by character. *)
(***************************************************************************)
EXTENDS Integers, Sequences, FiniteSets, TLC

VARIABLES
    data,     \* the store: cedula -> account record (dict passed to every handler)
    fs,       \* the files: DATA_FILE, its .bak sibling, the temporary file of the
              \* last save, and whether temporary files of earlier saves remain
    sesion,   \* the cedula whose menu_usuario loop is running, or Ninguno
    reloj,    \* the wall clock, in half seconds
    entrada,  \* the lines read by input() in the last handler
    salida    \* the lines printed by the last handler

vars == <<data, fs, sesion, reloj, entrada, salida>>

-----------------------------------------------------------------------------
(* Config / constantes *)

SALDO_MINIMO == 50000
MULTIPLO == 10000

\* Python's None (no cedula is "None": a cedula is a string of digits)
Ninguno == "None"

-----------------------------------------------------------------------------
(* Bounds of the model *)

\* longest operation log an account may grow to (handlers are disabled beyond)
MaxOps == 3
\* most operations logged in the whole store
MaxRegistros == 4
\* most operations logged in the whole store in the runs that only type
\* valid amounts
MaxRegistrosGiros == 5
\* the same two bounds for the runs that look at the files: those in which
\* every step of a save may fail, and those in which the program starts anew
MaxOpsDisco == 2
MaxRegistrosDisco == 2
\* last clock value, in half seconds
MaxReloj == 2
\* longest log of one account and most operations logged in the whole store
\* in the runs that look at the logs and change the profile
MaxOpsConsultas == 2
MaxRegistrosConsultas == 4
\* the same two bounds in the runs that list the history while the clock runs
MaxOpsHistorial == 3
MaxRegistrosHistorial == 3

\* cedulas typed at any prompt; one that is not registered yet is an unknown one
Cedulas == {"111", "222"}

\* lines typed at the "Saldo inicial" prompt (the first one is refused)
EntradasSaldo ==
    { <<"4","0","0","0","0">>,
      <<"7","0","0","0","0">> }

\* lines typed at the amount prompts
Entradas ==
    { <<"a","b","c">>,
      <<"1","5","0","0","0">>,
      <<" ","2","0","0","0","0">>,
      <<"2","8","0","0","0","0">> }

\* lines typed at the amount prompts in the runs that only type valid amounts
EntradasAverias ==
    { <<" ","2","0","0","0","0">>,
      <<"2","8","0","0","0","0">> }

\* lines typed at the amount prompts in the runs that look at the logs
EntradasConsultas ==
    { <<" ","2","0","0","0","0">>,
      <<"R","E","T","I","R","O">> }

\* the line typed at the amount prompts in the runs in which any step of a
\* save may fail
EntradasRoturas == { <<" ","2","0","0","0","0">> }

\* what is typed at the "Nombre", "Apellidos" and "Email" prompts of
\* registrar_usuario
NombreTecleado == <<"A", "n", "a">>
ApellidosTecleados == <<"P", "a", "z">>
EmailTecleado ==
    [c \in Cedulas |->
        IF c = "111" THEN <<"a", "@", "x", ".", "c", "o", "m">>
        ELSE <<"b", "@", "x", ".", "c", "o", "m">>]

\* the option and the new value typed in actualizar_usuario
Actualizaciones ==
    { <<"1", <<"A", "n", "a", " ">> >>,
      <<"2", <<"P", "4", "z">> >>,
      <<"3", <<"A", "@", "X", ".", "c", "o", "m">> >>,
      <<"3", <<"a", "@", "x", ".", "o", "r", "g">> >>,
      <<"4", <<" ">> >>,
      <<"4", <<"a", "n", "a">> >>,
      <<"5", <<"a", "b", "c">> >>,
      <<"5", <<"a", "b", "c", "d">> >>,
      <<"0", <<>> >>,
      <<"9", <<>> >> }

\* the options typed in filtrar_por_tipo
OpcionesDeFiltro == {"1", "2", "6"}

\* the lines typed at the "Enter para ver mas" prompt
Continuaciones == { <<>> }

\* login names and passwords typed at the prompts
Usuarios == {"ana"}
ClavesRegistro == {"abcd"}
ClavesLogin == {"abcd", "zzzz"}

\* how a call of escribir_json_atomo may end: the step that raises, if any;
\* after a failed dump or replace the os.remove of the finally clause may
\* raise as well (that exception is swallowed)
Resultados == {"ok", "mkstemp", "dump", "replace", "dump+remove", "replace+remove"}

-----------------------------------------------------------------------------
(* Values *)

PyInt(n) == <<"int", n>>
PyStr(s) == <<"str", s>>

RECURSIVE Texto(_)
\* the characters of a typed line as one string
Texto(cs) == IF cs = <<>> THEN "" ELSE cs[1] \o Texto(Tail(cs))

-----------------------------------------------------------------------------
(* Utilidades *)

\* datetime.now().strftime(FECHA_FMT): the time cut to whole seconds
ahora(t) == t \div 2

Blancos == {" ", "\t", "\n", "\r"}

RECURSIVE lstrip(_)
lstrip(cs) == IF cs # <<>> /\ cs[1] \in Blancos THEN lstrip(Tail(cs)) ELSE cs

RECURSIVE rstrip(_)
rstrip(cs) ==
    IF cs # <<>> /\ cs[Len(cs)] \in Blancos
    THEN rstrip(SubSeq(cs, 1, Len(cs) - 1))
    ELSE cs

\* str.strip()
strip(cs) == rstrip(lstrip(cs))

Digitos == <<"0", "1", "2", "3", "4", "5", "6", "7", "8", "9">>

EsDigito(c) == \E i \in 1..Len(Digitos) : Digitos[i] = c

ValorDigito(c) == (CHOOSE i \in 1..Len(Digitos) : Digitos[i] = c) - 1

RECURSIVE ValorDecimal(_)
ValorDecimal(cs) ==
    IF cs = <<>> THEN 0
    ELSE ValorDecimal(SubSeq(cs, 1, Len(cs) - 1)) * 10 + ValorDigito(cs[Len(cs)])

\* int(str(s).strip()) or ValueError: [ok |-> FALSE] is the raised ValueError.
\* (An optional sign, then ASCII decimal digits; Python's "_" separators
\* and non-ASCII digits are outside the typed lines of the model.)
safe_int(s) ==
    LET t == strip(s)
        signo == t # <<>> /\ t[1] \in {"+", "-"}
        cuerpo == IF signo THEN Tail(t) ELSE t
        v == ValorDecimal(cuerpo)
    IN  IF cuerpo # <<>> /\ \A i \in 1..Len(cuerpo) : EsDigito(cuerpo[i])
        THEN [ok |-> TRUE, v |-> IF signo /\ t[1] = "-" THEN 0 - v ELSE v]
        ELSE [ok |-> FALSE, v |-> 0]

-----------------------------------------------------------------------------
(* Validaciones *)

Minusculas ==
    <<"a", "b", "c", "d", "e", "f", "g", "h", "i", "j", "k", "l", "m",
      "n", "o", "p", "q", "r", "s", "t", "u", "v", "w", "x", "y", "z">>
Mayusculas ==
    <<"A", "B", "C", "D", "E", "F", "G", "H", "I", "J", "K", "L", "M",
      "N", "O", "P", "Q", "R", "S", "T", "U", "V", "W", "X", "Y", "Z">>

Rango(s) == {s[i] : i \in 1..Len(s)}

\* str.lower() on the ASCII letters
Minuscula(c) ==
    IF c \in Rango(Mayusculas)
    THEN Minusculas[CHOOSE i \in 1..Len(Mayusculas) : Mayusculas[i] = c]
    ELSE c

lower(cs) == [i \in 1..Len(cs) |-> Minuscula(cs[i])]

\* str.isalpha() on ASCII text
isalpha(cs) ==
    cs # <<>> /\ \A i \in 1..Len(cs) : cs[i] \in Rango(Minusculas) \cup Rango(Mayusculas)

\* re.match(r'^[a-z0-9._%+\-]+@[a-z0-9.\-]+\.com$', email.strip().lower())
validar_email_com(email) ==
    LET e == lower(strip(email))
        n == Len(e)
        local == Rango(Minusculas) \cup Rango(Digitos) \cup {".", "_", "%", "+", "-"}
        dominio == Rango(Minusculas) \cup Rango(Digitos) \cup {".", "-"}
    IN  \E k \in 2..n :
           /\ e[k] = "@"
           /\ \A i \in 1..(k - 1) : e[i] \in local
           /\ n - k >= 5
           /\ SubSeq(e, n - 3, n) = <<".", "c", "o", "m">>
           /\ \A i \in (k + 1)..(n - 4) : e[i] \in dominio

\* nombre_valido(txt): letters and blanks only, and not blank
nombre_valido(txt) ==
    LET t == strip(txt)
    IN  t # <<>> /\ isalpha(SelectSeq(t, LAMBDA c : c # " "))

\* email_unico(data, email, cedula_actual)
email_unico(d, email, cedula_actual) ==
    LET e == lower(strip(email))
    IN  \A c \in DOMAIN d \ {cedula_actual} : lower(strip(d[c].email)) # e

-----------------------------------------------------------------------------
(* Persistencia segura *)

Ausente == [existe |-> FALSE]

\* json.dump(data, f): the document that holds the whole store
Documento(d) == [existe |-> TRUE, completo |-> TRUE, json |-> d]

\* a temporary file as mkstemp leaves it (empty), and after a write that raised
TmpVacio == [existe |-> TRUE, completo |-> FALSE]

\* the finally clause: remove the temporary file if it is still there
QuitarTmp(f) == [f EXCEPT !.tmp = Ausente]

\* mutant: the document is written to the temporary file and never renamed
escribir_json_atomo_sin_replace(f, d, r) == f

\* mutant: the document is written straight to the target path
escribir_json_atomo_pasos_directo(f, d, r) ==
    LET abierto == [f EXCEPT !.archivo = TmpVacio]
    IN  IF r = "ok" THEN <<f, abierto, [f EXCEPT !.archivo = Documento(d)]>>
        ELSE <<f, abierto>>

(* The states of the files during escribir_json_atomo(path, data), one     *)
(* after each system call that went through, when the call ends as r says: *)
(* mkstemp, the write of the document (a write that raises leaves the      *)
(* temporary file incomplete), os.replace, and the os.remove of the        *)
(* finally clause (reached only while the temporary file exists).          *)
escribir_json_atomo_pasos(f, d, r) ==
    LET creado == [f EXCEPT !.tmp = TmpVacio, !.restos = @ \/ f.tmp.existe]
        escrito == [creado EXCEPT !.tmp = Documento(d)]
        renombrado == [escrito EXCEPT !.archivo = escrito.tmp, !.tmp = Ausente]
    IN  CASE r = "mkstemp"        -> <<f>>
          [] r = "dump"           -> <<f, creado, QuitarTmp(creado)>>
          [] r = "dump+remove"    -> <<f, creado>>
          [] r = "replace"        -> <<f, creado, escrito, QuitarTmp(escrito)>>
          [] r = "replace+remove" -> <<f, creado, escrito>>
          [] OTHER                -> <<f, creado, escrito, renombrado>>

\* escribir_json_atomo(path, data), ending as r says: the files it leaves
escribir_json_atomo(f, d, r) ==
    LET p == escribir_json_atomo_pasos(f, d, r)
    IN  p[Len(p)]

\* a file whose text parses as JSON but is no object (a list, say)
Lista == [existe |-> TRUE, completo |-> TRUE, lista |-> TRUE]

\* json.load(f) returns and isinstance(data, dict) holds
EsTienda(a) == a.existe /\ a.completo /\ "json" \in DOMAIN a

\* how the open and json.load of cargar_datos may end
CargaResultados == {"ok", "open"}

\* how backup_si_existe may end: os.replace goes through; os.replace raises
\* and the copy goes through; opening either file of the copy raises; the
\* write of the copy raises after open(bak, "wb") has emptied the backup
RespaldoResultados == {"replace", "copy", "open", "write"}

\* mutant: an earlier backup is kept
backup_si_existe_sin_pisar(f, rb) ==
    IF ~f.archivo.existe \/ f.bak.existe THEN f
    ELSE [f EXCEPT !.bak = f.archivo, !.archivo = Ausente]

\* backup_si_existe(path), ending as rb says; no exception leaves it
backup_si_existe(f, rb) ==
    IF ~f.archivo.existe THEN f
    ELSE CASE rb = "replace" -> [f EXCEPT !.bak = f.archivo, !.archivo = Ausente]
           [] rb = "copy"    -> [f EXCEPT !.bak = f.archivo]
           [] rb = "open"    -> f
           [] OTHER          -> [f EXCEPT !.bak = TmpVacio]

\* int(v) for a logged monto: an int is returned as it is; the strs that the
\* program logs as monto ("OK", "ERROR") are no numerals and int() raises
int_de_monto(v) == [ok |-> v[1] = "int", v |-> v]

\* the normalisation loop of cargar_datos: the three balances are ints in
\* every document the program writes, and int() of an int is that int; the
\* monto of an operation becomes an int when int() accepts it and stays else
normalizar(d) ==
    [c \in DOMAIN d |->
        [d[c] EXCEPT !.operaciones =
            [i \in DOMAIN @ |->
                [@[i] EXCEPT !.monto =
                    IF int_de_monto(@).ok THEN int_de_monto(@).v ELSE @]]]]

\* cargar_datos(), ending as rl and rb say: the store returned and the files
cargar_datos(f, rl, rb) ==
    IF ~f.archivo.existe THEN [data |-> << >>, fs |-> f]
    ELSE IF rl = "ok" /\ EsTienda(f.archivo)
    THEN [data |-> normalizar(f.archivo.json), fs |-> f]
    ELSE [data |-> << >>, fs |-> backup_si_existe(f, rb)]

AVISO == "[WARN] no se pudo guardar datos:"

\* print(linea)
Imprimir(w, linea) == [w EXCEPT !.out = Append(@, linea)]

\* input(...) answered with linea
Leer(w, linea) == [w EXCEPT !.inp = Append(@, linea)]

\* mutant: a failed save falls back to what the data file holds
guardar_datos_que_deshace(w, r) ==
    LET w1 == [w EXCEPT !.fs = escribir_json_atomo(w.fs, w.data, r)]
    IN  IF r = "ok" THEN w1
        ELSE [Imprimir(w1, AVISO) EXCEPT
                 !.data = IF w.fs.archivo.existe THEN w.fs.archivo.json ELSE << >>]

\* guardar_datos(data): the exception of a failed write is caught and reported
guardar_datos(w, r) ==
    LET w1 == [w EXCEPT !.fs = escribir_json_atomo(w.fs, w.data, r)]
    IN  IF r = "ok" THEN w1 ELSE Imprimir(w1, AVISO)

-----------------------------------------------------------------------------
(* Registro de operaciones *)

\* mutant: the new operation is put at the head of the log
anotar_al_frente(operaciones, op) == <<op>> \o operaciones

\* data[cedula]["operaciones"].append(op)
anotar(operaciones, op) == Append(operaciones, op)

\* registrar_operacion(data, cedula, tipo, monto, estado, descripcion,
\* destinatario): builds the operation from its parameters in this order,
\* appends it to the log of cedula (creating the record and the log when
\* missing) and saves at once.  r is how that save ends.
registrar_operacion(w, cedula, tipo, monto, estado, descripcion, destinatario, r) ==
    LET base == [fecha |-> ahora(w.reloj), tipo |-> tipo, monto |-> monto,
                 estado |-> estado, descripcion |-> descripcion]
        op == IF destinatario # Ninguno /\ destinatario # ""
              THEN [k \in DOMAIN base \cup {"destinatario"} |->
                        IF k = "destinatario" THEN destinatario ELSE base[k]]
              ELSE base
        d1 == IF cedula \in DOMAIN w.data
              THEN w.data
              ELSE [c \in DOMAIN w.data \cup {cedula} |->
                        IF c = cedula THEN [operaciones |-> <<>>] ELSE w.data[c]]
        d2 == [d1 EXCEPT ![cedula].operaciones = anotar(@, op)]
    IN  guardar_datos([w EXCEPT !.data = d2], r)

-----------------------------------------------------------------------------
(* Funciones principales *)

\* registrar_usuario(data) once every prompt has been answered with a line
\* that its loop accepts (a refused line is only printed about and asked
\* again).  The fields that no operation reads or writes afterwards
\* (fecha_nacimiento, edad, genero, estado_civil, fecha_apertura) are left
\* out of the record; an email is kept as its characters.
registrar_usuario(w0, ced, usuario, clave, linea, rs) ==
    LET w == Leer(Leer(Leer(Leer(Imprimir(w0, "# registro"), ced), usuario),
                       clave), linea)
        monto == safe_int(strip(linea)).v
        d1 == [c \in DOMAIN w.data \cup {ced} |->
                 IF c = ced
                 THEN [cedula |-> ced, nombre |-> Texto(strip(NombreTecleado)),
                       apellidos |-> Texto(strip(ApellidosTecleados)),
                       email |-> lower(strip(EmailTecleado[ced])),
                       usuario |-> usuario, clave |-> clave,
                       saldo_capital |-> monto, saldo_prestamo |-> 0,
                       deuda |-> 0, operaciones |-> <<>>]
                 ELSE w.data[c]]
        w1 == registrar_operacion([w EXCEPT !.data = d1], ced, PyStr("APERTURA"),
                                  PyInt(monto), "OK", "Apertura de cuenta",
                                  Ninguno, rs[1])
    IN  Imprimir(w1, "usuario registrado correctamente")

\* the conditions under which the loops of registrar_usuario stop asking
registro_aceptado(d, ced, linea) ==
    /\ ced \notin DOMAIN d
    /\ nombre_valido(NombreTecleado)
    /\ nombre_valido(ApellidosTecleados)
    /\ validar_email_com(EmailTecleado[ced])
    /\ email_unico(d, EmailTecleado[ced], Ninguno)
    /\ safe_int(strip(linea)).ok
    /\ safe_int(strip(linea)).v >= SALDO_MINIMO
    /\ safe_int(strip(linea)).v % MULTIPLO = 0

\* iniciar_sesion(data): ret is the returned cedula, or Ninguno
iniciar_sesion(w0, ced, usuario_ing, clave, rs) ==
    LET wc == Leer(Imprimir(w0, "# inicio de sesion"), ced)
        w == Leer(Leer(wc, usuario_ing), clave)
    IN  IF ced \notin DOMAIN wc.data
        THEN [w |-> Imprimir(wc, "usuario no encontrado"), ret |-> Ninguno]
        ELSE LET u == w.data[ced] IN
             IF u.usuario = usuario_ing /\ u.clave = clave
             THEN [w |-> Imprimir(w, "Bienvenido"), ret |-> ced]
             ELSE [w |-> registrar_operacion(
                            Imprimir(w, "credenciales incorrectas"), ced,
                            PyStr("LOGIN_INTENTO"), PyInt(0), "ERROR",
                            "Credenciales incorrectas", Ninguno, rs[1]),
                   ret |-> Ninguno]

-----------------------------------------------------------------------------
(* Operaciones: depositar, retirar, giro, prestamo, abonar *)

\* The calls below pass (data, ced, X, "OK" | "ERROR", text) to
\* registrar_operacion, whose parameters after cedula are (tipo, monto,
\* estado, descripcion): X lands in tipo, the status word in monto, the text
\* in estado, and descripcion keeps its default "".

\* monto <= 0 or monto % MULTIPLO != 0, the test every amount prompt is
\* followed by
monto_invalido(monto) == monto <= 0 \/ monto % MULTIPLO # 0

\* mutant: the debt never bars an operation
tiene_deuda_ignorada(u) == FALSE

\* u["deuda"] > 0, the first test of retirar, solicitar_prestamo and
\* realizar_giro
tiene_deuda(u) == u.deuda > 0

\* monto > u["saldo_capital"], in retirar and realizar_giro
saldo_insuficiente(u, monto) == monto > u.saldo_capital

\* mutant: the capital may be taken down to nothing
bajo_minimo_hasta_cero(u, monto) == u.saldo_capital - monto < 0

\* mutant: a balance of exactly the minimum is refused too
bajo_minimo_estricto(u, monto) == u.saldo_capital - monto <= SALDO_MINIMO

\* u["saldo_capital"] - monto < SALDO_MINIMO, in retirar and realizar_giro
bajo_minimo(u, monto) == u.saldo_capital - monto < SALDO_MINIMO

\* mutant: a loan of exactly the maximum is refused
excede_maximo_estricto(u, monto) == monto >= u.saldo_capital * 4

\* maximo = u["saldo_capital"] * 4 ... monto > maximo
excede_maximo(u, monto) == monto > u.saldo_capital * 4

\* mutant: the loan balance is not cleared with the debt
depositar_pago_total_sin_prestamo(d, ced, monto) ==
    LET excedente == monto - d[ced].deuda
    IN  [d EXCEPT ![ced].deuda = 0,
                  ![ced].saldo_capital = IF excedente > 0 THEN @ + excedente ELSE @]

\* mutant: the whole deposit is credited, not only what exceeds the debt
depositar_pago_total_completo(d, ced, monto) ==
    [d EXCEPT ![ced].deuda = 0,
              ![ced].saldo_prestamo = 0,
              ![ced].saldo_capital = @ + monto]

\* depositar, monto >= deuda: the debt is paid off, the rest goes to capital
depositar_pago_total(d, ced, monto) ==
    LET excedente == monto - d[ced].deuda
    IN  [d EXCEPT ![ced].deuda = 0,
                  ![ced].saldo_prestamo = 0,
                  ![ced].saldo_capital = IF excedente > 0 THEN @ + excedente ELSE @]

\* depositar, monto < deuda
depositar_abono(d, ced, monto) ==
    [d EXCEPT ![ced].deuda = @ - monto,
              ![ced].saldo_prestamo = IF @ - monto > 0 THEN @ - monto ELSE 0]

\* depositar, no debt
depositar_capital(d, ced, monto) ==
    [d EXCEPT ![ced].saldo_capital = @ + monto]

depositar(w0, ced, linea, rs) ==
    LET w == Leer(Imprimir(w0, "# deposito"), linea)
        u == w.data[ced]
        ent == strip(linea)
        p == safe_int(ent)
        monto == p.v
    IN  IF ~p.ok
        THEN registrar_operacion(Imprimir(w, "monto invalido"), ced,
                 PyStr(Texto(ent)), PyStr("ERROR"), "Monto no numerico", "",
                 Ninguno, rs[1])
        ELSE IF monto_invalido(monto)
        THEN registrar_operacion(
                 Imprimir(w, "monto debe ser positivo y multiplo de 10000"), ced,
                 PyInt(monto), PyStr("ERROR"), "Monto no multiplo o no positivo",
                 "", Ninguno, rs[1])
        ELSE IF u.deuda > 0
        THEN LET deuda == u.deuda IN
             IF monto >= deuda
             THEN LET excedente == monto - deuda
                      d1 == depositar_pago_total(w.data, ced, monto)
                      w1 == registrar_operacion([w EXCEPT !.data = d1], ced,
                               PyInt(monto), PyStr("OK"),
                               "Pago deuda " \o ToString(deuda) \o "; excedente "
                                   \o ToString(excedente),
                               "", Ninguno, rs[1])
                  IN  guardar_datos(
                          Imprimir(w1, "deuda saldada; excedente agregado al capital si hubo"),
                          rs[2])
             ELSE LET d1 == depositar_abono(w.data, ced, monto)
                      w1 == registrar_operacion([w EXCEPT !.data = d1], ced,
                               PyInt(monto), PyStr("OK"),
                               "Abono a deuda; resta " \o ToString(d1[ced].deuda),
                               "", Ninguno, rs[1])
                  IN  guardar_datos(
                          Imprimir(w1, "abono realizado; deuda restante "
                                           \o ToString(d1[ced].deuda)),
                          rs[2])
        ELSE LET d1 == depositar_capital(w.data, ced, monto)
                 w1 == registrar_operacion([w EXCEPT !.data = d1], ced,
                          PyInt(monto), PyStr("OK"), "Deposito a capital", "",
                          Ninguno, rs[1])
             IN  guardar_datos(Imprimir(w1, "deposito exitoso"), rs[2])

\* mutant: the operands of the subtraction are swapped
retirar_aplicar_invertido(d, ced, monto) ==
    [d EXCEPT ![ced].saldo_capital = monto - @]

\* retirar: u["saldo_capital"] -= monto
retirar_aplicar(d, ced, monto) ==
    [d EXCEPT ![ced].saldo_capital = @ - monto]

retirar(w0, ced, linea, rs) ==
    LET wh == Imprimir(w0, "# retiro")
        w == Leer(wh, linea)
        u == w.data[ced]
        ent == strip(linea)
        p == safe_int(ent)
        monto == p.v
    IN  IF tiene_deuda(u)
        THEN registrar_operacion(
                 Imprimir(wh, "no puede retirar con deuda pendiente"), ced,
                 PyInt(0), PyStr("ERROR"), "Intento retiro con deuda", "",
                 Ninguno, rs[1])
        ELSE IF ~p.ok
        THEN registrar_operacion(Imprimir(w, "monto invalido"), ced,
                 PyStr(Texto(ent)), PyStr("ERROR"), "Monto no numerico", "",
                 Ninguno, rs[1])
        ELSE IF monto_invalido(monto)
        THEN registrar_operacion(Imprimir(w, "monto invalido o no multiplo"), ced,
                 PyInt(monto), PyStr("ERROR"), "Monto no multiplo o no positivo",
                 "", Ninguno, rs[1])
        ELSE IF saldo_insuficiente(u, monto)
        THEN registrar_operacion(Imprimir(w, "saldo insuficiente"), ced,
                 PyInt(monto), PyStr("ERROR"), "Saldo insuficiente", "",
                 Ninguno, rs[1])
        ELSE IF bajo_minimo(u, monto)
        THEN registrar_operacion(
                 Imprimir(w, "debe dejar saldo minimo " \o ToString(SALDO_MINIMO)),
                 ced, PyInt(monto), PyStr("ERROR"), "Bajo saldo minimo", "",
                 Ninguno, rs[1])
        ELSE LET d1 == retirar_aplicar(w.data, ced, monto)
                 w1 == registrar_operacion([w EXCEPT !.data = d1], ced,
                          PyInt(monto), PyStr("OK"), "Retiro exitoso", "",
                          Ninguno, rs[1])
             IN  guardar_datos(Imprimir(w1, "retiro realizado"), rs[2])

\* solicitar_prestamo: the loan is added to the loan balance, to the debt and
\* to the capital
prestamo_aplicar(d, ced, monto) ==
    [d EXCEPT ![ced].saldo_prestamo = @ + monto,
              ![ced].deuda = @ + monto,
              ![ced].saldo_capital = @ + monto]

solicitar_prestamo(w0, ced, linea, rs) ==
    LET wh == Imprimir(w0, "# solicitud de prestamo")
        u == wh.data[ced]
        maximo == u.saldo_capital * 4
        w == Leer(Imprimir(wh, "prestamo maximo: " \o ToString(maximo)), linea)
        ent == strip(linea)
        p == safe_int(ent)
        monto == p.v
    IN  IF tiene_deuda(u)
        THEN registrar_operacion(
                 Imprimir(wh, "no puede pedir prestamo con deuda vigente"), ced,
                 PyInt(0), PyStr("ERROR"), "Intento prestamo con deuda", "",
                 Ninguno, rs[1])
        ELSE IF ~p.ok
        THEN registrar_operacion(Imprimir(w, "monto invalido"), ced,
                 PyStr(Texto(ent)), PyStr("ERROR"), "Monto no numerico", "",
                 Ninguno, rs[1])
        ELSE IF monto_invalido(monto)
        THEN registrar_operacion(Imprimir(w, "monto invalido o no multiplo"), ced,
                 PyInt(monto), PyStr("ERROR"), "Monto no multiplo o no positivo",
                 "", Ninguno, rs[1])
        ELSE IF excede_maximo(u, monto)
        THEN registrar_operacion(
                 Imprimir(w, "monto excede el maximo permitido"), ced,
                 PyInt(monto), PyStr("ERROR"), "Excede maximo", "", Ninguno, rs[1])
        ELSE LET d1 == prestamo_aplicar(w.data, ced, monto)
                 w1 == registrar_operacion([w EXCEPT !.data = d1], ced,
                          PyInt(monto), PyStr("OK"),
                          "Prestamo aprobado y acreditado", "", Ninguno, rs[1])
             IN  guardar_datos(Imprimir(w1, "prestamo aprobado"), rs[2])

\* mutant: the amount received pays the debt of the destination first
giro_aplicar_salda_deuda(d, ced, destino, monto) ==
    LET d1 == [d EXCEPT ![ced].saldo_capital = @ - monto]
    IN  IF d[destino].deuda > 0
        THEN [d1 EXCEPT ![destino].deuda = IF @ > monto THEN @ - monto ELSE 0,
                        ![destino].saldo_prestamo = IF @ > monto THEN @ - monto ELSE 0]
        ELSE [d1 EXCEPT ![destino].saldo_capital = @ + monto]

\* mutant: the destination is credited and the sender is not debited
giro_aplicar_sin_debito(d, ced, destino, monto) ==
    [d EXCEPT ![destino].saldo_capital = @ + monto]

\* realizar_giro, "ejecutar giro": the sender is debited, the destination
\* credited (data[destino].get("saldo_capital", 0) + monto)
giro_aplicar(d, ced, destino, monto) ==
    LET d1 == [d EXCEPT ![ced].saldo_capital = @ - monto]
    IN  [d1 EXCEPT ![destino].saldo_capital = @ + monto]

\* mutant: any cedula is taken for a destination
destino_no_existe_ignorado(d, destino) == FALSE

\* realizar_giro: destino not in data
destino_no_existe(d, destino) == destino \notin DOMAIN d

\* mutant: the destination is credited after the first of the two operations
\* has been logged and saved
giro_pasos_abono_tardio(w, ced, destino, monto, rs) ==
    LET d1 == [w.data EXCEPT ![ced].saldo_capital = @ - monto]
        w1 == registrar_operacion([w EXCEPT !.data = d1], ced,
                 PyInt(monto), PyStr("OK"), "Giro a " \o destino, "",
                 destino, rs[1])
        w2 == registrar_operacion(
                 [w1 EXCEPT !.data[destino].saldo_capital = @ + monto],
                 destino, PyInt(monto), PyStr("OK"),
                 "Recepcion giro desde " \o ced, "", ced, rs[2])
    IN  <<w1, w2, guardar_datos(Imprimir(w2, "giro efectuado"), rs[3])>>

\* realizar_giro from "ejecutar giro" on: the worlds after each of its three
\* saves (the one of each registrar_operacion and the guardar_datos that
\* ends the handler); rs is how the saves end
giro_pasos(w, ced, destino, monto, rs) ==
    LET d1 == giro_aplicar(w.data, ced, destino, monto)
        w1 == registrar_operacion([w EXCEPT !.data = d1], ced,
                 PyInt(monto), PyStr("OK"), "Giro a " \o destino, "",
                 destino, rs[1])
        w2 == registrar_operacion(w1, destino, PyInt(monto), PyStr("OK"),
                 "Recepcion giro desde " \o ced, "", ced, rs[2])
    IN  <<w1, w2, guardar_datos(Imprimir(w2, "giro efectuado"), rs[3])>>

realizar_giro(w0, ced, destino, linea, rs) ==
    LET wh == Imprimir(w0, "# giro a otra cuenta")
        u == wh.data[ced]
        wd == Leer(wh, destino)
        w == Leer(wd, linea)
        ent == strip(linea)
        p == safe_int(ent)
        monto == p.v
    IN  IF tiene_deuda(u)
        THEN registrar_operacion(
                 Imprimir(wh, "no puede hacer giros con deuda pendiente"), ced,
                 PyInt(0), PyStr("ERROR"), "Intento giro con deuda", "",
                 Ninguno, rs[1])
        ELSE IF destino = ced
        THEN registrar_operacion(
                 Imprimir(wd, "no puede girar a la misma cuenta"), ced,
                 PyInt(0), PyStr("ERROR"), "Giro a misma cuenta", "",
                 Ninguno, rs[1])
        ELSE IF destino_no_existe(wd.data, destino)
        THEN registrar_operacion(Imprimir(wd, "cuenta destino no existe"), ced,
                 PyInt(0), PyStr("ERROR"), "Destino no existe", "", Ninguno, rs[1])
        ELSE IF ~p.ok
        THEN registrar_operacion(Imprimir(w, "monto invalido"), ced,
                 PyStr(Texto(ent)), PyStr("ERROR"), "Monto no numerico", "",
                 Ninguno, rs[1])
        ELSE IF monto_invalido(monto)
        THEN registrar_operacion(Imprimir(w, "monto no valido o no multiplo"), ced,
                 PyInt(monto), PyStr("ERROR"), "Monto no multiplo", "",
                 Ninguno, rs[1])
        ELSE IF saldo_insuficiente(u, monto)
        THEN registrar_operacion(Imprimir(w, "saldo insuficiente"), ced,
                 PyInt(monto), PyStr("ERROR"), "Saldo insuficiente", "",
                 Ninguno, rs[1])
        ELSE IF bajo_minimo(u, monto)
        THEN registrar_operacion(
                 Imprimir(w, "no puede dejar la cuenta por debajo del saldo minimo"),
                 ced, PyInt(monto), PyStr("ERROR"), "Bajo saldo minimo post-giro",
                 "", Ninguno, rs[1])
        ELSE giro_pasos(w, ced, destino, monto, rs)[3]

\* mutant: what exceeds the debt is not credited to the capital
abonar_pago_total_sin_excedente(d, ced, monto) ==
    [d EXCEPT ![ced].deuda = 0, ![ced].saldo_prestamo = 0]

\* abonar_prestamo, monto >= deuda_prev
abonar_pago_total(d, ced, monto) ==
    LET excedente == monto - d[ced].deuda
    IN  [d EXCEPT ![ced].deuda = 0,
                  ![ced].saldo_prestamo = 0,
                  ![ced].saldo_capital = IF excedente > 0 THEN @ + excedente ELSE @]

\* mutant: the payment is added to the debt
abonar_parcial_que_suma(d, ced, monto) ==
    [d EXCEPT ![ced].deuda = @ + monto,
              ![ced].saldo_prestamo = @ + monto]

\* abonar_prestamo, monto < deuda_prev
abonar_parcial(d, ced, monto) ==
    [d EXCEPT ![ced].deuda = @ - monto,
              ![ced].saldo_prestamo = IF @ - monto > 0 THEN @ - monto ELSE 0]

\* (the test "monto > saldo_capital" of abonar_prestamo only passes: the
\* payment is not taken from the capital)
\* mutant: the refusal is logged like the other refusals
abonar_sin_deuda_registrado(w, ced, r) ==
    registrar_operacion(Imprimir(w, "no tiene deuda"), ced, PyInt(0),
                        PyStr("ERROR"), "Abono sin deuda", "", Ninguno, r)

\* abonar_prestamo with no debt: a line is printed and the handler returns
abonar_sin_deuda(w, ced, r) == Imprimir(w, "no tiene deuda")

abonar_prestamo(w0, ced, linea, rs) ==
    LET wh == Imprimir(w0, "# abonar prestamo")
        u == wh.data[ced]
        w == Leer(wh, linea)
        ent == strip(linea)
        p == safe_int(ent)
        monto == p.v
    IN  IF u.deuda <= 0
        THEN abonar_sin_deuda(wh, ced, rs[1])
        ELSE IF ~p.ok
        THEN registrar_operacion(Imprimir(w, "monto invalido"), ced,
                 PyStr(Texto(ent)), PyStr("ERROR"), "Monto no numerico", "",
                 Ninguno, rs[1])
        ELSE IF monto_invalido(monto)
        THEN registrar_operacion(Imprimir(w, "monto invalido o no multiplo"), ced,
                 PyInt(monto), PyStr("ERROR"), "Monto no multiplo o no positivo",
                 "", Ninguno, rs[1])
        ELSE LET deuda_prev == u.deuda IN
             IF monto >= deuda_prev
             THEN LET excedente == monto - deuda_prev
                      d1 == abonar_pago_total(w.data, ced, monto)
                      w1 == registrar_operacion([w EXCEPT !.data = d1], ced,
                               PyInt(monto), PyStr("OK"),
                               "Pago total deuda " \o ToString(deuda_prev)
                                   \o "; excedente " \o ToString(excedente),
                               "", Ninguno, rs[1])
                  IN  guardar_datos(
                          Imprimir(w1, "deuda pagada, excedente (si hubo) agregado al capital"),
                          rs[2])
             ELSE LET d1 == abonar_parcial(w.data, ced, monto)
                      w1 == registrar_operacion([w EXCEPT !.data = d1], ced,
                               PyInt(monto), PyStr("OK"),
                               "Abono parcial; resta " \o ToString(d1[ced].deuda),
                               "", Ninguno, rs[1])
                  IN  guardar_datos(Imprimir(w1, "abono parcial realizado"), rs[2])

-----------------------------------------------------------------------------
(* Consultas / Historial *)

consultar_saldo(w0, ced, rs) ==
    LET u == w0.data[ced]
        w == Imprimir(Imprimir(Imprimir(Imprimir(w0, "# consulta saldo"),
                 "Saldo capital: " \o ToString(u.saldo_capital)),
                 "Saldo prestamo: " \o ToString(u.saldo_prestamo)),
                 "Deuda pendiente: " \o ToString(u.deuda))
    IN  registrar_operacion(w, ced, PyInt(0), PyStr("OK"), "Consulta de saldo",
                            "", Ninguno, rs[1])

\* str(v) of a logged value, as print and f-strings show it
Str(v) == IF v[1] = "int" THEN ToString(v[2]) ELSE v[2]

\* the latest fecha of a log that is not empty
RECURSIVE FechaMaxima(_)
FechaMaxima(ops) ==
    IF Len(ops) = 1 THEN ops[1].fecha
    ELSE LET m == FechaMaxima(Tail(ops))
         IN  IF ops[1].fecha > m THEN ops[1].fecha ELSE m

(* sorted(ops, key=strptime(fecha), reverse=True) and ops.sort(key=...,     *)
(* reverse=True): Python's sort is stable, with reverse=True as well, so    *)
(* operations of the same fecha keep the order they have in ops.  Every     *)
(* fecha the program writes parses, so the except branches are not taken.   *)
RECURSIVE ordenar_por_fecha(_)
ordenar_por_fecha(ops) ==
    IF ops = <<>> THEN <<>>
    ELSE LET m == FechaMaxima(ops)
         IN  SelectSeq(ops, LAMBDA x : x.fecha = m)
               \o ordenar_por_fecha(SelectSeq(ops, LAMBDA x : x.fecha # m))

\* the lines that mostrar_historial prints for the i-th operation listed
lineas_de_historial(i, op) ==
    <<ToString(i) \o ". [" \o ToString(op.fecha) \o "] " \o Str(op.tipo)
         \o " - " \o Str(op.monto) \o " - " \o op.estado>>
      \o (IF op.descripcion # "" THEN <<"      " \o op.descripcion>> ELSE <<>>)
      \o (IF "destinatario" \in DOMAIN op
          THEN <<"     destinatario: " \o op.destinatario>> ELSE <<>>)

\* the loop of mostrar_historial over the operations from the i-th on
RECURSIVE listar_historial(_, _, _)
listar_historial(w, ops, i) ==
    IF i > Len(ops) THEN w
    ELSE LET ls == lineas_de_historial(i, ops[i])
         IN  listar_historial([w EXCEPT !.out = @ \o ls], ops, i + 1)

mostrar_historial(w0, ced) ==
    LET ops == w0.data[ced].operaciones
    IN  IF ops = <<>>
        THEN Imprimir(w0, "No hay operaciones registradas.")
        ELSE listar_historial(Imprimir(w0, "# historial (mas reciente primero)"),
                              ordenar_por_fecha(ops), 1)

\* mapa of filtrar_por_tipo
mapa == [o \in {"1", "2", "3", "4", "5"} |->
            CASE o = "1" -> "DEPÓSITO"
              [] o = "2" -> "RETIRO"
              [] o = "3" -> "GIRO"
              [] o = "4" -> "PRÉSTAMO"
              [] OTHER   -> "CONSULTA"]

\* [x for x in operaciones if x.get("tipo") == tipo], sorted like the history
filtrar_ops(u, tipo) ==
    ordenar_por_fecha(SelectSeq(u.operaciones, LAMBDA x : x.tipo = PyStr(tipo)))

\* the lines that filtrar_por_tipo prints for one operation
lineas_de_filtro(op) ==
    <<ToString(op.fecha) \o " - " \o Str(op.tipo) \o " - " \o Str(op.monto)
         \o " - " \o op.estado>>
      \o (IF op.descripcion # "" THEN <<"    " \o op.descripcion>> ELSE <<>>)

\* the lines of the operations idx+1 .. hasta of ops
RECURSIVE lineas_de_bloque(_, _, _)
lineas_de_bloque(ops, idx, hasta) ==
    IF idx >= hasta \/ idx >= Len(ops) THEN <<>>
    ELSE lineas_de_filtro(ops[idx + 1]) \o lineas_de_bloque(ops, idx + 1, hasta)

\* the pagination loop of filtrar_por_tipo, five operations to the page;
\* conts are the lines typed at the "Enter para ver mas" prompts
RECURSIVE paginar(_, _, _, _)
paginar(w, ops, idx, conts) ==
    IF idx >= Len(ops) THEN w
    ELSE LET w1 == [w EXCEPT !.out = @ \o lineas_de_bloque(ops, idx, idx + 5)]
             w2 == Leer(w1, conts[1])
         IN  IF Texto(strip(conts[1])) \in {"q", "Q"} THEN w2
             ELSE paginar(w2, ops, idx + 5, Tail(conts))

filtrar_por_tipo(w0, ced, linea, conts) ==
    LET wm == Imprimir(Imprimir(Imprimir(Imprimir(Imprimir(Imprimir(w0,
                  "# filtrar por tipo"), "1. Depositos"), "2. Retiros"),
                  "3. Giros"), "4. Prestamos"), "5. Consultas")
        w == Leer(wm, linea)
        op == Texto(strip(linea))
    IN  IF op \notin DOMAIN mapa
        THEN Imprimir(w, "opcion invalida")
        ELSE LET ops == filtrar_ops(w.data[ced], mapa[op])
             IN  IF ops = <<>>
                 THEN Imprimir(w, "No hay operaciones de este tipo.")
                 ELSE paginar(w, ops, 0, conts)

-----------------------------------------------------------------------------
(* Actualizar datos *)

\* actualizar_usuario(data, ced) when op and then nuevo are typed
actualizar_usuario(w0, ced, op, nuevo, r) ==
    LET wm == Imprimir(Imprimir(Imprimir(Imprimir(Imprimir(Imprimir(Imprimir(w0,
                  "# actualizar datos"), "1. Nombre"), "2. Apellidos"),
                  "3. Email"), "4. Usuario"), "5. Clave"), "0. Volver")
        wo == Leer(wm, <<op>>)
        w == Leer(wo, nuevo)
        v == strip(nuevo)
        pon(campo, valor, linea) ==
            guardar_datos(Imprimir([w EXCEPT !.data[ced][campo] = valor], linea), r)
    IN  CASE op = "1" ->
               IF nombre_valido(v) THEN pon("nombre", Texto(v), "nombre actualizado")
               ELSE guardar_datos(Imprimir(w, "nombre invalido"), r)
          [] op = "2" ->
               IF nombre_valido(v) THEN pon("apellidos", Texto(v), "apellidos actualizados")
               ELSE guardar_datos(Imprimir(w, "apellidos invalidos"), r)
          [] op = "3" ->
               IF ~validar_email_com(lower(v)) THEN Imprimir(w, "email invalido")
               ELSE IF ~email_unico(w.data, lower(v), ced)
               THEN Imprimir(w, "email ya registrado por otro usuario")
               ELSE pon("email", lower(v), "email actualizado")
          [] op = "4" ->
               IF v # <<>> THEN pon("usuario", Texto(v), "usuario actualizado")
               ELSE guardar_datos(Imprimir(w, "usuario invalido"), r)
          [] op = "5" ->
               IF Len(v) >= 4 THEN pon("clave", Texto(v), "clave actualizada")
               ELSE guardar_datos(Imprimir(w, "clave corta"), r)
          [] op = "0" -> wo
          [] OTHER -> guardar_datos(Imprimir(wo, "opcion invalida"), r)

-----------------------------------------------------------------------------
(* The program as a state machine *)

\* menu_principal() has called cargar_datos() with no data file on disk
Init ==
    /\ data = [c \in {} |-> c]
    /\ fs = [archivo |-> Ausente, bak |-> Ausente, tmp |-> Ausente, restos |-> FALSE]
    /\ sesion = Ninguno
    /\ reloj = 0
    /\ entrada = <<>>
    /\ salida = <<>>

\* the world a handler starts in, when the clock shows t
Mundo(t) == [data |-> data, fs |-> fs, inp |-> <<>>, out |-> <<>>, reloj |-> t]

\* the world a handler leaves behind
Queda(w) ==
    /\ data' = w.data
    /\ fs' = w.fs
    /\ reloj' = w.reloj
    /\ entrada' = w.inp
    /\ salida' = w.out

RECURSIVE RegistrosDe(_, _)
RegistrosDe(d, S) ==
    IF S = {} THEN 0
    ELSE LET c == CHOOSE x \in S : TRUE
         IN  Len(d[c].operaciones) + RegistrosDe(d, S \ {c})

\* the number of operations logged in the whole store
Registros(d) == RegistrosDe(d, DOMAIN d)

(* The surroundings of a run: res is how a save may end, corre whether the  *)
(* clock moves while the program waits at a prompt, lineas the lines typed *)
(* at the amount prompts, ops and regs the longest log of one account and  *)
(* the most operations in the whole store that the run goes to.            *)
Calma == [res |-> {"ok"}, corre |-> FALSE, lineas |-> Entradas,
          ops |-> MaxOps, regs |-> MaxRegistros]

\* a disk on which every system call of a save may fail
Roturas == [res |-> Resultados, corre |-> FALSE, lineas |-> EntradasRoturas,
            ops |-> MaxOpsDisco, regs |-> MaxRegistrosDisco]

\* a sound disk and valid amounts only, with room for one more operation
Giros == [res |-> {"ok"}, corre |-> FALSE, lineas |-> EntradasAverias,
          ops |-> MaxOps, regs |-> MaxRegistrosGiros]

\* a sound disk, in the runs that look at the logs and change the profile
Consultas == [res |-> {"ok"}, corre |-> FALSE, lineas |-> EntradasConsultas,
              ops |-> MaxOpsConsultas, regs |-> MaxRegistrosConsultas]

\* a sound disk and a clock that runs, in the runs that list the history
Relojes == [res |-> {"ok"}, corre |-> TRUE, lineas |-> EntradasRoturas,
            ops |-> MaxOpsHistorial, regs |-> MaxRegistrosHistorial]

\* a sound disk, in the runs in which the program is left and started anew
Arranques == [res |-> {"ok"}, corre |-> FALSE, lineas |-> EntradasRoturas,
              ops |-> MaxOpsDisco, regs |-> MaxRegistrosDisco]

\* the same with a disk that may refuse the rename of a save
Averias == [res |-> {"ok", "replace"}, corre |-> FALSE, lineas |-> EntradasAverias,
            ops |-> MaxOps, regs |-> MaxRegistros]

\* the clock values a handler may find: time only moves forward
Instantes(e) == IF e.corre THEN reloj..MaxReloj ELSE {reloj}

\* how the k saves of one handler may end
Salvados(e, k) == [1..k -> e.res]

\* the store d is within the bounds of the run
Cabe(d, e) ==
    /\ Registros(d) <= e.regs
    /\ \A c \in DOMAIN d : Len(d[c].operaciones) <= e.ops

\* the log of the account in session has room for one more operation
HayLugar(e) ==
    /\ Registros(data) < e.regs
    /\ Len(data[sesion].operaciones) < e.ops

\* menu_principal, option 1
RegistrarUsuario(e) ==
    /\ sesion = Ninguno
    /\ Registros(data) < e.regs
    /\ \E ced \in Cedulas, usuario \in Usuarios, clave \in ClavesRegistro,
          linea \in EntradasSaldo, t \in Instantes(e), rs \in Salvados(e, 1) :
          /\ registro_aceptado(data, ced, linea)
          /\ Queda(registrar_usuario(Mundo(t), ced, usuario, clave, linea, rs))
    /\ UNCHANGED sesion

\* menu_principal, option 2: a returned cedula enters menu_usuario
IniciarSesion(e) ==
    /\ sesion = Ninguno
    /\ \E ced \in Cedulas, usuario \in Usuarios, clave \in ClavesLogin,
          t \in Instantes(e), rs \in Salvados(e, 1) :
          LET r == iniciar_sesion(Mundo(t), ced, usuario, clave, rs)
          IN  Cabe(r.w.data, e) /\ Queda(r.w) /\ sesion' = r.ret

\* menu_usuario, option 10
CerrarSesion(e) ==
    /\ sesion # Ninguno
    /\ \E t \in Instantes(e) : Queda(Imprimir(Mundo(t), "cerrando sesion"))
    /\ sesion' = Ninguno

\* menu_usuario, option 1
ConsultarSaldo(e) ==
    /\ sesion # Ninguno
    /\ HayLugar(e)
    /\ \E t \in Instantes(e), rs \in Salvados(e, 1) :
          Queda(consultar_saldo(Mundo(t), sesion, rs))
    /\ UNCHANGED sesion

\* menu_usuario, option 2
Depositar(e) ==
    /\ sesion # Ninguno
    /\ HayLugar(e)
    /\ \E linea \in e.lineas, t \in Instantes(e), rs \in Salvados(e, 2) :
          Queda(depositar(Mundo(t), sesion, linea, rs))
    /\ UNCHANGED sesion

\* menu_usuario, option 3
Retirar(e) ==
    /\ sesion # Ninguno
    /\ HayLugar(e)
    /\ \E linea \in e.lineas, t \in Instantes(e), rs \in Salvados(e, 2) :
          Queda(retirar(Mundo(t), sesion, linea, rs))
    /\ UNCHANGED sesion

\* menu_usuario, option 4
SolicitarPrestamo(e) ==
    /\ sesion # Ninguno
    /\ HayLugar(e)
    /\ \E linea \in e.lineas, t \in Instantes(e), rs \in Salvados(e, 2) :
          Queda(solicitar_prestamo(Mundo(t), sesion, linea, rs))
    /\ UNCHANGED sesion

\* menu_usuario, option 5
RealizarGiro(e) ==
    /\ sesion # Ninguno
    /\ HayLugar(e)
    /\ \E destino \in Cedulas, linea \in e.lineas, t \in Instantes(e),
          rs \in Salvados(e, 3) :
          LET w == realizar_giro(Mundo(t), sesion, destino, linea, rs)
          IN  Cabe(w.data, e) /\ Queda(w)
    /\ UNCHANGED sesion

\* menu_usuario, option 6
AbonarPrestamo(e) ==
    /\ sesion # Ninguno
    /\ \E linea \in e.lineas, t \in Instantes(e), rs \in Salvados(e, 2) :
          LET w == abonar_prestamo(Mundo(t), sesion, linea, rs)
          IN  Cabe(w.data, e) /\ Queda(w)
    /\ UNCHANGED sesion

\* menu_usuario, option 7
MostrarHistorial(e) ==
    /\ sesion # Ninguno
    /\ Queda(mostrar_historial(Mundo(reloj), sesion))
    /\ UNCHANGED sesion

\* menu_usuario, option 8
FiltrarPorTipo(e) ==
    /\ sesion # Ninguno
    /\ \E o \in OpcionesDeFiltro, cont \in Continuaciones :
          Queda(filtrar_por_tipo(Mundo(reloj), sesion, <<o>>, <<cont, cont>>))
    /\ UNCHANGED sesion

\* menu_usuario, option 9
ActualizarUsuario(e) ==
    /\ sesion # Ninguno
    /\ \E a \in Actualizaciones, t \in Instantes(e), rs \in Salvados(e, 1) :
          Queda(actualizar_usuario(Mundo(t), sesion, a[1], a[2], rs[1]))
    /\ UNCHANGED sesion

ADIOS == "gracias por usar cajero, adios"
BIENVENIDA == "--- Cajero Pulgarcito ---"

\* what may happen to the data file from outside the program: its text is
\* cut short, or replaced by a JSON list
Danos == {TmpVacio, Lista}

\* the data file is damaged from outside while the main menu waits
Estropear ==
    /\ sesion = Ninguno
    /\ fs.archivo.existe
    /\ \E a \in Danos : fs' = [fs EXCEPT !.archivo = a]
    /\ entrada' = <<>>
    /\ salida' = <<>>
    /\ UNCHANGED <<data, sesion, reloj>>

\* menu_principal, option 3, and the next run of the program up to its first
\* menu: the store in memory is gone and cargar_datos() builds the new one
Reiniciar ==
    /\ sesion = Ninguno
    /\ \E rl \in CargaResultados, rb \in RespaldoResultados :
          LET c == cargar_datos(fs, rl, rb)
          IN  /\ data' = c.data
              /\ fs' = c.fs
    /\ entrada' = <<>>
    /\ salida' = <<ADIOS, BIENVENIDA>>
    /\ UNCHANGED <<sesion, reloj>>

\* one turn of menu_principal or of menu_usuario
Paso(e) ==
    \/ RegistrarUsuario(e)
    \/ IniciarSesion(e)
    \/ CerrarSesion(e)
    \/ ConsultarSaldo(e)
    \/ Depositar(e)
    \/ Retirar(e)
    \/ SolicitarPrestamo(e)
    \/ RealizarGiro(e)
    \/ AbonarPrestamo(e)

Next == Paso(Calma)

Spec == Init /\ [][Next]_vars

NextAverias == Paso(Averias)

SpecAverias == Init /\ [][NextAverias]_vars

NextRoturas == Paso(Roturas)

SpecRoturas == Init /\ [][NextRoturas]_vars

NextGiros == Paso(Giros)

SpecGiros == Init /\ [][NextGiros]_vars

NextConsultas ==
    \/ Paso(Consultas)
    \/ MostrarHistorial(Consultas)
    \/ FiltrarPorTipo(Consultas)
    \/ ActualizarUsuario(Consultas)

SpecConsultas == Init /\ [][NextConsultas]_vars

NextHistorial ==
    \/ Paso(Relojes)
    \/ MostrarHistorial(Relojes)

SpecHistorial == Init /\ [][NextHistorial]_vars

NextArranques == Paso(Arranques) \/ Estropear \/ Reiniciar

SpecArranques == Init /\ [][NextArranques]_vars

-----------------------------------------------------------------------------
(* Properties *)

\* capital, loan balance and debt of account c in store d
Dinero(d, c) == <<d[c].saldo_capital, d[c].saldo_prestamo, d[c].deuda>>

RECURSIVE CapitalDe(_, _)
CapitalDe(d, S) ==
    IF S = {} THEN 0
    ELSE LET c == CHOOSE x \in S : TRUE
         IN  d[c].saldo_capital + CapitalDe(d, S \ {c})

\* the sum of the capital of all accounts of store d
CapitalTotal(d) == CapitalDe(d, DOMAIN d)

\* the handler printed this line
Dijo(lineas, l) == \E i \in 1..Len(lineas) : lineas[i] = l

\* this step is a run of the handler that prints the heading cab first
Corrio(cab) == salida' # <<>> /\ salida'[1] = cab

\* the typed line is a positive multiple of 10000
EsMontoValido(linea) ==
    /\ safe_int(linea).ok
    /\ safe_int(linea).v > 0
    /\ safe_int(linea).v % 10000 = 0

Monto(linea) == safe_int(linea).v

\* no account appears, disappears or changes a monetary field in this step
DineroIntacto ==
    /\ DOMAIN data' = DOMAIN data
    /\ \A c \in DOMAIN data : Dinero(data', c) = Dinero(data, c)

\* C1: in every reachable state, every account has debt 0 exactly when its
\* loan balance is 0.
C1_DeudaSiiPrestamo ==
    \A c \in DOMAIN data : (data[c].deuda = 0) <=> (data[c].saldo_prestamo = 0)

\* an indebted account has paid its debt off by a deposit
C1_Testigo ==
    /\ sesion # Ninguno
    /\ Dijo(salida, "deuda saldada; excedente agregado al capital si hubo")
    /\ data[sesion].deuda = 0
    /\ data[sesion].saldo_prestamo = 0

\* C2: in every reachable state the capital of every account is >= 0.
C2_CapitalNoNegativo ==
    \A c \in DOMAIN data : data[c].saldo_capital >= 0

\* a withdrawal has taken the capital down to the minimum
C2_Testigo ==
    /\ sesion # Ninguno
    /\ Dijo(salida, "retiro realizado")
    /\ data[sesion].saldo_capital = 50000

\* C3: a successful transfer of a from X to Y takes exactly a from the capital
\* of X, adds exactly a to the capital of Y and keeps the sum of all capital.
C3_GiroConserva ==
    [][ (Corrio("# giro a otra cuenta") /\ Dijo(salida', "giro efectuado")) =>
          LET x == sesion
              y == entrada'[1]
              a == Monto(entrada'[2])
          IN  /\ a > 0
              /\ x # y
              /\ data'[x].saldo_capital = data[x].saldo_capital - a
              /\ data'[y].saldo_capital = data[y].saldo_capital + a
              /\ DOMAIN data' = DOMAIN data
              /\ CapitalTotal(data') = CapitalTotal(data) ]_vars

\* a transfer has succeeded
C3_Testigo ==
    /\ sesion # Ninguno
    /\ Dijo(salida, "giro efectuado")
    /\ data[entrada[1]].saldo_capital = 70000 + Monto(entrada[2])

\* C4: a withdrawal, loan request or transfer started by an account with
\* debt > 0 is rejected and changes no monetary field of any account.
C4_DeudaBloquea ==
    [][ ( /\ sesion # Ninguno
          /\ data[sesion].deuda > 0
          /\ \/ Corrio("# retiro")
             \/ Corrio("# solicitud de prestamo")
             \/ Corrio("# giro a otra cuenta") ) =>
          /\ DineroIntacto
          /\ ~Dijo(salida', "retiro realizado")
          /\ ~Dijo(salida', "prestamo aprobado")
          /\ ~Dijo(salida', "giro efectuado")
          /\ \/ Dijo(salida', "no puede retirar con deuda pendiente")
             \/ Dijo(salida', "no puede pedir prestamo con deuda vigente")
             \/ Dijo(salida', "no puede hacer giros con deuda pendiente") ]_vars

\* an indebted account has been refused a withdrawal
C4_Testigo ==
    /\ sesion # Ninguno
    /\ data[sesion].deuda > 0
    /\ salida = <<"# retiro", "no puede retirar con deuda pendiente">>

\* C5: a deposit of a valid amount a settles the debt first: with debt > 0
\* and a >= debt, debt and loan balance become 0 and the capital grows by
\* a - debt; with debt > 0 and a < debt, the debt shrinks by a, the loan
\* balance becomes max(0, loan balance - a) and the capital stays; with no
\* debt the capital grows by a and debt and loan balance stay 0.
C5_DepositoSalda ==
    [][ (Corrio("# deposito") /\ EsMontoValido(entrada'[1])) =>
          LET u == data[sesion]
              v == data'[sesion]
              a == Monto(entrada'[1])
          IN  /\ (u.deuda > 0 /\ a >= u.deuda) =>
                    /\ v.deuda = 0
                    /\ v.saldo_prestamo = 0
                    /\ v.saldo_capital = u.saldo_capital + (a - u.deuda)
              /\ (u.deuda > 0 /\ a < u.deuda) =>
                    /\ v.deuda = u.deuda - a
                    /\ v.saldo_prestamo =
                          IF u.saldo_prestamo - a > 0 THEN u.saldo_prestamo - a ELSE 0
                    /\ v.saldo_capital = u.saldo_capital
              /\ u.deuda = 0 =>
                    /\ v.saldo_capital = u.saldo_capital + a
                    /\ v.deuda = 0
                    /\ v.saldo_prestamo = 0 ]_vars

\* a deposit larger than the debt has paid it off
C5_Testigo ==
    /\ sesion # Ninguno
    /\ salida = <<"# deposito", "deuda saldada; excedente agregado al capital si hubo">>
    /\ Monto(entrada[1]) = 280000
    /\ data[sesion].saldo_capital = 350000
    /\ data[sesion].deuda = 0

\* C6: a withdrawal of a succeeds exactly when the account has no debt, a is a
\* positive multiple of 10000, a <= capital and capital - a >= 50000; then the
\* capital goes down by a and debt and loan balance stay; otherwise the
\* capital is unchanged.
C6_Retiro ==
    [][ Corrio("# retiro") =>
          LET u == data[sesion]
              v == data'[sesion]
              exito == Dijo(salida', "retiro realizado")
              puede == /\ u.deuda = 0
                       /\ EsMontoValido(entrada'[1])
                       /\ Monto(entrada'[1]) <= u.saldo_capital
                       /\ u.saldo_capital - Monto(entrada'[1]) >= 50000
          IN  /\ exito <=> puede
              /\ exito =>
                    /\ v.saldo_capital = u.saldo_capital - Monto(entrada'[1])
                    /\ v.deuda = u.deuda
                    /\ v.saldo_prestamo = u.saldo_prestamo
              /\ ~exito => v.saldo_capital = u.saldo_capital ]_vars

\* a withdrawal has left exactly the minimum
C6_Testigo ==
    /\ sesion # Ninguno
    /\ salida = <<"# retiro", "retiro realizado">>
    /\ Monto(entrada[1]) = 20000
    /\ data[sesion].saldo_capital = 50000

\* C7: a loan request of a succeeds exactly when the account has no debt, a is
\* a positive multiple of 10000 and a <= 4 * capital; then loan balance, debt
\* and capital each grow by a; a request above 4 * capital changes no
\* monetary field.
C7_Prestamo ==
    [][ Corrio("# solicitud de prestamo") =>
          LET u == data[sesion]
              v == data'[sesion]
              exito == Dijo(salida', "prestamo aprobado")
              puede == /\ u.deuda = 0
                       /\ EsMontoValido(entrada'[1])
                       /\ Monto(entrada'[1]) <= 4 * u.saldo_capital
          IN  /\ exito <=> puede
              /\ exito =>
                    /\ v.saldo_prestamo = u.saldo_prestamo + Monto(entrada'[1])
                    /\ v.deuda = u.deuda + Monto(entrada'[1])
                    /\ v.saldo_capital = u.saldo_capital + Monto(entrada'[1])
              /\ ~exito => DineroIntacto ]_vars

\* a loan of exactly four times the capital has been granted
C7_Testigo ==
    /\ sesion # Ninguno
    /\ Dijo(salida, "prestamo aprobado")
    /\ Monto(entrada[1]) = 280000
    /\ Dinero(data, sesion) = <<350000, 280000, 280000>>

\* C8: from every state of an indebted account and for every valid amount,
\* abonar_prestamo and depositar leave the same capital, loan balance and debt.
C8_AbonoIgualDeposito ==
    \A c \in DOMAIN data : \A linea \in Entradas :
        (data[c].deuda > 0 /\ EsMontoValido(linea)) =>
            Dinero(abonar_prestamo(Mundo(reloj), c, linea, <<"ok", "ok">>).data, c)
              = Dinero(depositar(Mundo(reloj), c, linea, <<"ok", "ok">>).data, c)

\* a repayment larger than the debt has been made
C8_Testigo ==
    /\ sesion # Ninguno
    /\ salida = <<"# abonar prestamo",
                  "deuda pagada, excedente (si hubo) agregado al capital">>
    /\ Monto(entrada[1]) = 280000
    /\ Dinero(data, sesion) = <<350000, 0, 0>>

\* C9: every operation in every log has the status OK or ERROR.
C9_EstadoOkError ==
    \A c \in DOMAIN data : \A i \in 1..Len(data[c].operaciones) :
        data[c].operaciones[i].estado \in {"OK", "ERROR"}

\* the lines that depositar, retirar, solicitar_prestamo, realizar_giro and
\* abonar_prestamo print when they have changed the balances of account u
MensajesDeExito(u) ==
    { "deposito exitoso",
      "deuda saldada; excedente agregado al capital si hubo",
      "abono realizado; deuda restante " \o ToString(u.deuda),
      "retiro realizado",
      "prestamo aprobado",
      "giro efectuado",
      "deuda pagada, excedente (si hubo) agregado al capital",
      "abono parcial realizado" }

\* the last handler was a successful mutation of the account in session
MutacionExitosa ==
    /\ sesion # Ninguno
    /\ \E m \in MensajesDeExito(data[sesion]) : Dijo(salida, m)

\* C10: when a successful deposit, withdrawal, loan request, repayment or
\* transfer returns and its last save has not failed, the data file holds the
\* in-memory store, new balances and new operations included.
C10_PersisteAlVolver ==
    (MutacionExitosa /\ salida[Len(salida)] # AVISO) =>
        fs.archivo = Documento(data)

\* a successful mutation whose first save failed and whose last save went through
C10_Testigo ==
    /\ MutacionExitosa
    /\ Dijo(salida, AVISO)
    /\ salida[Len(salida)] # AVISO
    /\ fs.archivo = Documento(data)

\* the file at the target path is whole: absent, or a complete document
Entero(a) == a.existe => a.completo

\* the ways a save ends when the write or the rename has failed
FallosDeEscritura == {"dump", "replace", "dump+remove", "replace+remove"}

\* C11 (as stated): at every step of a save, however it ends, the target path
\* holds the complete previous store or the complete new one, and when the
\* write or the rename fails the temporary file is removed.
C11_GuardadoAtomico ==
    \A r \in Resultados :
        LET p == escribir_json_atomo_pasos(fs, data, r)
        IN  /\ \A i \in 1..Len(p) :
                  /\ p[i].archivo \in {fs.archivo, Documento(data)}
                  /\ Entero(p[i].archivo)
            /\ r \in FallosDeEscritura => p[Len(p)].tmp = Ausente

\* C11 (amended): at every step of a save, however it ends, the target path
\* holds the complete previous store or the complete new one; when the write
\* or the rename fails the temporary file is removed, unless that removal
\* fails too: then the temporary file stays behind and the target path still
\* holds the previous store.
C11_GuardadoAtomicoSalvoRemove ==
    /\ Entero(fs.archivo)
    /\ \A r \in Resultados :
          LET p == escribir_json_atomo_pasos(fs, data, r)
              fin == p[Len(p)]
          IN  /\ \A i \in 1..Len(p) :
                    /\ p[i].archivo \in {fs.archivo, Documento(data)}
                    /\ Entero(p[i].archivo)
              /\ r \in {"dump", "replace"} => fin.tmp = Ausente
              /\ r \in {"dump+remove", "replace+remove"} =>
                    /\ fin.tmp.existe
                    /\ fin.archivo = fs.archivo
              /\ fin = escribir_json_atomo(fs, data, r)

\* a save has failed after an earlier one went through: the data file holds
\* the store of the earlier save and no temporary file is left
C11_Testigo ==
    /\ Dijo(salida, AVISO)
    /\ fs.archivo.existe
    /\ fs.archivo # Documento(data)
    /\ fs.tmp = Ausente
    /\ ~fs.restos

\* the k-th line read in this step, if the handler got that far
Arg(k) == IF k <= Len(entrada') THEN entrada'[k] ELSE <<>>

\* the world this step would leave behind if each of its saves went through
SinFallos ==
    LET m == Mundo(reloj')
        ok == <<"ok", "ok", "ok">>
        cab == salida'[1]
    IN  CASE cab = "# registro" ->
               registrar_usuario(m, Arg(1), Arg(2), Arg(3), Arg(4), ok)
          [] cab = "# inicio de sesion" ->
               iniciar_sesion(m, Arg(1), Arg(2), Arg(3), ok).w
          [] cab = "# consulta saldo" -> consultar_saldo(m, sesion, ok)
          [] cab = "# deposito" -> depositar(m, sesion, Arg(1), ok)
          [] cab = "# retiro" -> retirar(m, sesion, Arg(1), ok)
          [] cab = "# solicitud de prestamo" -> solicitar_prestamo(m, sesion, Arg(1), ok)
          [] cab = "# giro a otra cuenta" -> realizar_giro(m, sesion, Arg(1), Arg(2), ok)
          [] cab = "# abonar prestamo" -> abonar_prestamo(m, sesion, Arg(1), ok)
          [] OTHER -> Imprimir(m, cab)

NoEsAviso(l) == l # AVISO

\* the last save of the handler that printed these lines has failed
\* (registrar_usuario prints its last line after its only save)
UltimoGuardadoFallo(lineas) ==
    IF lineas[1] = "# registro" THEN Dijo(lineas, AVISO)
    ELSE lineas[Len(lineas)] = AVISO

\* C12: a save that fails is reported and nothing else: the handler prints
\* and leaves in memory what it does when its saves go through, a failed
\* save leaves the data file as it was, and once the last save of a step
\* that changed the store goes through, the data file holds the store again.
C12_FalloNoDeshace ==
    [][ /\ data' = SinFallos.data
        /\ SelectSeq(salida', NoEsAviso) = SinFallos.out
        /\ \A r \in Resultados \ {"ok"} :
              LET w == guardar_datos(Mundo(reloj), r)
              IN  /\ w.data = data
                  /\ w.fs.archivo = fs.archivo
                  /\ w.out = <<AVISO>>
        /\ (data' # data /\ ~UltimoGuardadoFallo(salida')) =>
              fs'.archivo = Documento(data') ]_vars

\* both saves of a deposit have failed: the deposit is in memory and the
\* data file still holds the store from before it
C12_Testigo ==
    /\ sesion # Ninguno
    /\ salida = <<"# deposito", AVISO, "deposito exitoso", AVISO>>
    /\ data[sesion].saldo_capital = 90000
    /\ Len(data[sesion].operaciones) = 2
    /\ fs.archivo.existe
    /\ fs.archivo.json[sesion].saldo_capital = 70000
    /\ Len(fs.archivo.json[sesion].operaciones) = 1

\* C13: cargar_datos never fails its caller: with no data file it returns an
\* empty store and touches no file; with a data file that does not parse as
\* a JSON object it returns an empty store, and when the backup goes through
\* (by rename or by copy) the .bak file holds the unparsable content,
\* whatever it held before; when the backup fails the store is empty too.
C13_CargaNoFalla ==
    [][ /\ \A rl \in CargaResultados, rb \in RespaldoResultados :
              LET c == cargar_datos(fs, rl, rb)
              IN  /\ ~fs.archivo.existe => (c.data = << >> /\ c.fs = fs)
                  /\ (fs.archivo.existe /\ ~EsTienda(fs.archivo)) =>
                        /\ c.data = << >>
                        /\ rb \in {"replace", "copy"} => c.fs.bak = fs.archivo
                        /\ c.fs.archivo \in {fs.archivo, Ausente}
        /\ Corrio(ADIOS) =>
              /\ ~fs.archivo.existe => (data' = << >> /\ fs' = fs)
              /\ (fs.archivo.existe /\ ~EsTienda(fs.archivo)) =>
                    /\ data' = << >>
                    /\ fs'.bak \in {fs.archivo, fs.bak, TmpVacio} ]_vars

\* the program has started on a data file holding a JSON list while an
\* earlier backup held a cut-short text: the store is empty and the list is
\* in the backup
C13_Testigo ==
    /\ salida = <<ADIOS, BIENVENIDA>>
    /\ data = << >>
    /\ fs.bak = Lista
    /\ ~fs.archivo.existe

\* C14: a transfer whose destination is not in the store, or is the sender,
\* is rejected: no monetary field of any account changes, the set of
\* accounts stays the same (no record appears for the unknown cedula) and
\* only the sender's log grows, by the one entry of the rejection.
C14_GiroSinDestino ==
    [][ ( /\ Corrio("# giro a otra cuenta")
          /\ Len(entrada') >= 1
          /\ entrada'[1] \notin DOMAIN data \/ entrada'[1] = sesion ) =>
          /\ ~Dijo(salida', "giro efectuado")
          /\ \/ Dijo(salida', "cuenta destino no existe")
             \/ Dijo(salida', "no puede girar a la misma cuenta")
          /\ DineroIntacto
          /\ \A c \in DOMAIN data \ {sesion} :
                data'[c].operaciones = data[c].operaciones
          /\ Len(data'[sesion].operaciones) = Len(data[sesion].operaciones) + 1
          /\ ~("destinatario" \in
                  DOMAIN data'[sesion].operaciones[Len(data'[sesion].operaciones)])
      ]_vars

\* a transfer to a cedula that is not in the store has been refused
C14_Testigo ==
    /\ sesion # Ninguno
    /\ salida = <<"# giro a otra cuenta", "cuenta destino no existe">>
    /\ entrada[1] \notin DOMAIN data
    /\ entrada[1] # sesion

\* C15: a successful transfer into an account that has a debt raises the
\* capital of that account by the amount and leaves its debt and its loan
\* balance as they were.
C15_GiroADeudor ==
    [][ ( /\ Corrio("# giro a otra cuenta")
          /\ Dijo(salida', "giro efectuado")
          /\ data[entrada'[1]].deuda > 0 ) =>
          LET y == entrada'[1]
              a == Monto(entrada'[2])
          IN  /\ data'[y].saldo_capital = data[y].saldo_capital + a
              /\ data'[y].deuda = data[y].deuda
              /\ data'[y].saldo_prestamo = data[y].saldo_prestamo ]_vars

\* an account that owes 280000 has received a transfer of 20000
C15_Testigo ==
    /\ sesion # Ninguno
    /\ Dijo(salida, "giro efectuado")
    /\ Dinero(data, entrada[1]) = <<370000, 280000, 280000>>

\* C16: abonar_prestamo on an account with no debt reads no amount, prints
\* its refusal and changes nothing: the store in memory, logs included, and
\* the files stay as they were.
C16_AbonoSinDeuda ==
    [][ (Corrio("# abonar prestamo") /\ data[sesion].deuda = 0) =>
          /\ data' = data
          /\ fs' = fs
          /\ entrada' = <<>>
          /\ salida' = <<"# abonar prestamo", "no tiene deuda">> ]_vars

\* a repayment has been refused for want of a debt while the data file was
\* behind the store in memory: it is still behind
C16_Testigo ==
    /\ sesion # Ninguno
    /\ salida = <<"# abonar prestamo", "no tiene deuda">>
    /\ data[sesion].deuda = 0
    /\ fs.archivo # Documento(data)

\* op is one of the operations of the sequence ops
EnLista(op, ops) == \E i \in 1..Len(ops) : ops[i] = op

\* the option of filtrar_por_tipo for the kind of operation that the handler
\* of this step has carried out, if it has carried one out
ClaseDelPaso ==
    CASE Corrio("# deposito")
           /\ \E m \in {"deposito exitoso",
                         "deuda saldada; excedente agregado al capital si hubo",
                         "abono realizado; deuda restante "
                             \o ToString(data'[sesion].deuda)} : Dijo(salida', m)
           -> "1"
      [] Corrio("# retiro") /\ Dijo(salida', "retiro realizado") -> "2"
      [] Corrio("# giro a otra cuenta") /\ Dijo(salida', "giro efectuado") -> "3"
      [] Corrio("# solicitud de prestamo") /\ Dijo(salida', "prestamo aprobado") -> "4"
      [] Corrio("# consulta saldo") -> "5"
      [] OTHER -> Ninguno

\* C17: after a successful deposit, withdrawal, transfer, loan or balance
\* query, the operation it logged is in the result of filtering the account's
\* log by that kind, and in the result of filtering by no other kind.
C17_FiltroPorTipo ==
    [][ ClaseDelPaso # Ninguno =>
          LET ops == data'[sesion].operaciones
              nueva == ops[Len(ops)]
          IN  \A o \in DOMAIN mapa :
                EnLista(nueva, filtrar_ops(data'[sesion], mapa[o]))
                  <=> o = ClaseDelPaso ]_vars

\* the operations of a log, the one appended last first
RECURSIVE Reverso(_)
Reverso(ops) ==
    IF ops = <<>> THEN <<>>
    ELSE Append(Reverso(Tail(ops)), ops[1])

\* C18: the history lists the operations of the log of the account in
\* session with the one appended later before the one appended earlier,
\* operations logged within the same second included.
C18_MasRecientePrimero ==
    [][ Corrio("# historial (mas reciente primero)") =>
          salida' = listar_historial(
                        Imprimir(Mundo(reloj), "# historial (mas reciente primero)"),
                        Reverso(data[sesion].operaciones), 1).out ]_vars

\* the history agrees with that order whenever no two operations of the
\* log carry the same second
C18_SegundosDistintos ==
    [][ ( /\ Corrio("# historial (mas reciente primero)")
          /\ \A i, j \in 1..Len(data[sesion].operaciones) :
                i # j => data[sesion].operaciones[i].fecha
                           # data[sesion].operaciones[j].fecha ) =>
          salida' = listar_historial(
                        Imprimir(Mundo(reloj), "# historial (mas reciente primero)"),
                        Reverso(data[sesion].operaciones), 1).out ]_vars

\* the sequence a is the beginning of the sequence b
EsPrefijo(a, b) == Len(a) <= Len(b) /\ SubSeq(b, 1, Len(a)) = a

\* C19: in every step (a ledger operation, a balance query, a login that
\* fails or not, a registration, a profile update, a listing) every account
\* stays and its log before the step is the beginning of its log after it;
\* a successful transfer adds exactly one operation to the log of the sender
\* and exactly one to the log of the destination.
C19_SoloSeAnade ==
    [][ /\ \A c \in DOMAIN data :
              /\ c \in DOMAIN data'
              /\ EsPrefijo(data[c].operaciones, data'[c].operaciones)
        /\ (Corrio("# giro a otra cuenta") /\ Dijo(salida', "giro efectuado")) =>
              /\ entrada'[1] # sesion
              /\ \A c \in {sesion, entrada'[1]} :
                    Len(data'[c].operaciones) = Len(data[c].operaciones) + 1 ]_vars

\* a transfer has gone through between two accounts that had logged their
\* opening only: each log holds the opening and, after it, one operation more
C19_Testigo ==
    /\ sesion # Ninguno
    /\ Dijo(salida, "giro efectuado")
    /\ \A c \in {sesion, entrada[1]} :
          /\ Len(data[c].operaciones) = 2
          /\ data[c].operaciones[1].tipo = PyStr("APERTURA")

\* a profile update has been saved by an account whose log holds more than
\* its opening
C19_TestigoActualizacion ==
    /\ sesion # Ninguno
    /\ salida # <<>>
    /\ salida[1] = "# actualizar datos"
    /\ Dijo(salida, "email actualizado")
    /\ Len(data[sesion].operaciones) = 2

\* the handler of this step is a loan request of the account in session
\* that has been granted
PrestamoPropio ==
    Corrio("# solicitud de prestamo") /\ Dijo(salida', "prestamo aprobado")

\* the handler of this step is a deposit or a repayment of the account in
\* session that has been accepted
PagoPropio ==
    /\ Corrio("# deposito") \/ Corrio("# abonar prestamo")
    /\ \E m \in MensajesDeExito(data'[sesion]) : Dijo(salida', m)
    /\ EsMontoValido(entrada'[1])

\* C20: an account goes from no debt to a debt only by a loan request of its
\* own that is granted, and from a debt to no debt only by a deposit or a
\* repayment of its own of an amount not below the debt; a step that is
\* neither of these nor an accepted payment of its own leaves the debt and
\* the loan balance of the account as they were, and a debt that is positive
\* never grows.
C20_LimpioYDeudor ==
    [][ \A c \in DOMAIN data :
          LET antes == data[c]
              luego == data'[c]
          IN  /\ c \in DOMAIN data'
              /\ (antes.deuda = 0 /\ luego.deuda > 0) =>
                    c = sesion /\ PrestamoPropio
              /\ (antes.deuda > 0 /\ luego.deuda = 0) =>
                    /\ c = sesion
                    /\ PagoPropio
                    /\ Monto(entrada'[1]) >= antes.deuda
              /\ ( \/ luego.deuda # antes.deuda
                   \/ luego.saldo_prestamo # antes.saldo_prestamo ) =>
                    c = sesion /\ (PrestamoPropio \/ (PagoPropio /\ antes.deuda > 0))
              /\ antes.deuda > 0 => luego.deuda <= antes.deuda ]_vars

\* an account that owed 280000 has paid 20000 of it with a repayment: it
\* still has a debt, a smaller one
C20_Testigo ==
    /\ sesion # Ninguno
    /\ salida # <<>>
    /\ salida[1] = "# abonar prestamo"
    /\ Dijo(salida, "abono parcial realizado")
    /\ data[sesion].deuda = 260000
    /\ data[sesion].saldo_prestamo = 260000

\* C21: in every reachable state the capital of every account of the store
\* (each one has been created by registrar_usuario) is at least SALDO_MINIMO.
C21_CapitalSobreMinimo ==
    \A c \in DOMAIN data : data[c].saldo_capital >= SALDO_MINIMO

\* a transfer has taken the capital of the sender down to the minimum, and
\* the withdrawal or transfer of anything more is refused
C21_Testigo ==
    /\ sesion # Ninguno
    /\ Dijo(salida, "giro efectuado")
    /\ data[sesion].saldo_capital = SALDO_MINIMO
    /\ data[entrada[1]].saldo_capital = 90000
    /\ bajo_minimo(data[sesion], MULTIPLO)

\* the worlds after each save of the transfer of this step, had its three
\* saves ended as rs says
PasosDelGiro(rs) ==
    giro_pasos(Leer(Leer(Imprimir(Mundo(reloj'), "# giro a otra cuenta"),
                         entrada'[1]), entrada'[2]),
               sesion, entrada'[1], Monto(entrada'[2]), rs)

\* C22: in a successful transfer, whichever of its three saves go through
\* (each one ends as a save may end in these runs),
\* the data file that each of them writes holds the debit of the sender
\* together with the credit of the destination, and so the same total
\* capital as the store had before the transfer.
C22_GiroGuardadoEntero ==
    [][ (Corrio("# giro a otra cuenta") /\ Dijo(salida', "giro efectuado")) =>
          LET x == sesion
              y == entrada'[1]
              a == Monto(entrada'[2])
          IN  /\ \E rs \in Salvados(Averias, 3) :
                    LET fin == PasosDelGiro(rs)[3]
                    IN  fin.data = data' /\ fin.fs = fs' /\ fin.out = salida'
              /\ \A rs \in Salvados(Averias, 3) : \A k \in 1..3 :
                    rs[k] = "ok" =>
                      LET f == PasosDelGiro(rs)[k].fs.archivo
                      IN  /\ f.existe /\ f.completo
                          /\ f.json[x].saldo_capital = data[x].saldo_capital - a
                          /\ f.json[y].saldo_capital = data[y].saldo_capital + a
                          /\ CapitalTotal(f.json) = CapitalTotal(data) ]_vars

\* a transfer has gone through whose first two saves failed and whose last
\* one did not: the data file holds the store with the debit and the credit
C22_Testigo ==
    /\ sesion # Ninguno
    /\ salida = <<"# giro a otra cuenta", AVISO, AVISO, "giro efectuado">>
    /\ fs.archivo = Documento(data)
    /\ data[sesion].saldo_capital = 50000
    /\ data[entrada[1]].saldo_capital = 90000


====
